---- MODULE Spec2Model ----
(***************************************************************************)
(* A model of the declarative mapping layer of wxcentral                   *)
(* (src/src/lib/DbModel.ts) and of the record type it is used for          *)
(* (src/src/models/Observation.ts).                                        *)
(*                                                                         *)
(* JavaScript values are records [t, v]: t is the typeof-like tag and v    *)
(* the value's text.  JavaScript objects (schemas, inputs, parameter       *)
(* mappings, conditions) are sequences of <<key, value>> pairs in property *)
(* order, which is the order Object.keys walks.  SQL text is a sequence of *)
(* tokens: literal text, a back-quoted identifier, or a placeholder; the   *)
(* text of each token is built by the same concatenations the template     *)
(* literals of the source perform.                                         *)
(***************************************************************************)
EXTENDS Integers, Sequences, FiniteSets, TLC

VARIABLES
    _dbTable,       \* static DbModel._dbTable of the record type
    _dbFields,      \* static DbModel._dbFields of the record type
    _dbPrimaryKey,  \* static DbModel._dbPrimaryKey of the record type
    className,      \* static `name` of the record type (this.name in a static method)
    hasInst,        \* whether the last factory call gave the caller an instance
    inst,           \* the properties of that instance
    insertsOk,      \* INSERTs of that instance the storage accepted
    lastID,         \* the storage's last generated row id
    lastOp,         \* the operation that ran last
    lastInput,      \* its argument
    thrown,         \* the error it threw (kind "none" when it returned)
    issued,         \* the statements it handed to the storage resource
    path,           \* the branch sync() dispatched to
    errors,         \* the validation messages createFromObject collected
    constructed,    \* factory invocations (this.create()) during the call
    returned        \* what the call returned

vars == <<_dbTable, _dbFields, _dbPrimaryKey, className, hasInst, inst, insertsOk,
          lastID, lastOp, lastInput, thrown, issued, path, errors, constructed,
          returned>>

-----------------------------------------------------------------------------
(* JavaScript values *)

Undefined == [t |-> "undefined", v |-> "undefined"]

Null == [t |-> "null", v |-> "null"]

Num(s) == [t |-> "number", v |-> s]

Str(s) == [t |-> "string", v |-> s]

Bool(s) == [t |-> "boolean", v |-> s]

\* The strings of the model that Number() turns into a number.
NumericStrings == {"", "0", "1", "5", "7", "10", "20"}

\* !x
Falsy(x) ==
    CASE x.t = "undefined" -> TRUE
      [] x.t = "null"      -> TRUE
      [] x.t = "number"    -> x.v \in {"0", "NaN"}
      [] x.t = "string"    -> x.v = ""
      [] x.t = "boolean"   -> x.v = "false"

\* Number.isNaN(x - 0)
MinusZeroIsNaN(x) ==
    CASE x.t = "undefined" -> TRUE
      [] x.t = "null"      -> FALSE
      [] x.t = "number"    -> x.v = "NaN"
      [] x.t = "string"    -> x.v \notin NumericStrings
      [] x.t = "boolean"   -> FALSE

\* x === true || x === false
IsBooleanLiteral(x) == x.t = "boolean" /\ x.v \in {"true", "false"}

-----------------------------------------------------------------------------
(* JavaScript objects as ordered <<key, value>> pairs *)

Keys(obj) == [i \in 1..Len(obj) |-> obj[i][1]]

KeySet(obj) == {obj[i][1] : i \in 1..Len(obj)}

HasOwnProperty(obj, key) == key \in KeySet(obj)

\* obj[key] for an object whose values are JavaScript values
Get(obj, key) ==
    IF HasOwnProperty(obj, key)
    THEN obj[CHOOSE i \in 1..Len(obj) : obj[i][1] = key][2]
    ELSE Undefined

\* obj[key] = value: an existing property keeps its position
Put(obj, key, value) ==
    IF HasOwnProperty(obj, key)
    THEN [i \in 1..Len(obj) |-> IF obj[i][1] = key THEN <<key, value>> ELSE obj[i]]
    ELSE Append(obj, <<key, value>>)

\* { ...a, ...b }
RECURSIVE Spread(_, _)
Spread(a, b) ==
    IF b = <<>> THEN a ELSE Spread(Put(a, b[1][1], b[1][2]), Tail(b))

-----------------------------------------------------------------------------
(* Column descriptors and the record types of the model *)

\* enum ColumnTypes
ColumnTypes == {"number", "string", "boolean"}

\* interface ColumnDescriptor; nullable and primaryKey are FALSE when omitted
ColumnDescriptor(name, type, nullable, primaryKey) ==
    [name |-> name, type |-> type, nullable |-> nullable, primaryKey |-> primaryKey]

\* The field map Observation is declared with.
ObservationSchema ==
    << <<"id", ColumnDescriptor("observationId", "number", FALSE, TRUE)>>,
       <<"stationKey", ColumnDescriptor("stationKey", "string", FALSE, FALSE)>>,
       <<"stationName", ColumnDescriptor("stationName", "string", FALSE, FALSE)>>,
       <<"observationType", ColumnDescriptor("observationType", "string", FALSE, FALSE)>>,
       <<"observationTime", ColumnDescriptor("observationTime", "number", FALSE, FALSE)>>,
       <<"observationValue", ColumnDescriptor("observationValue", "number", FALSE, FALSE)>> >>

\* A record type with a boolean and two nullable columns.
StationSchema ==
    << <<"id", ColumnDescriptor("stationId", "number", FALSE, TRUE)>>,
       <<"active", ColumnDescriptor("isActive", "boolean", FALSE, FALSE)>>,
       <<"elevation", ColumnDescriptor("elevation", "number", TRUE, FALSE)>>,
       <<"online", ColumnDescriptor("isOnline", "boolean", TRUE, FALSE)>> >>

\* A record type with no primary key.
LogSchema ==
    << <<"msg", ColumnDescriptor("message", "string", FALSE, FALSE)>>,
       <<"level", ColumnDescriptor("level", "number", FALSE, FALSE)>> >>

\* A record type whose field map marks two properties as primary key.
PairSchema ==
    << <<"value", ColumnDescriptor("value", "number", FALSE, FALSE)>>,
       <<"left", ColumnDescriptor("leftId", "number", FALSE, TRUE)>>,
       <<"right", ColumnDescriptor("rightId", "number", FALSE, TRUE)>> >>

\* The field maps tableSchema() is applied to.
Schemas == {ObservationSchema, StationSchema, LogSchema, PairSchema}

\* The table names tableName() is applied to.
TableNames == {"observation"}

\* What `this.name` can be in a static method of the decorated record type:
\* the decorators return anonymous subclasses, whose name is the build's choice.
ClassNames == {"Observation", "class_1"}

\* A static left undefined by a missing decorator.
Unset == <<>>

-----------------------------------------------------------------------------
(* Schema registration: the class decorators.  They run when the record type *)
(* is defined, before any operation on it; a record type declared without  *)
(* one of them keeps that static undefined.                                *)

\* A registration that walks the whole field map (forEach in place of find).
RECURSIVE FindPrimaryKeyNoStop(_)
FindPrimaryKeyNoStop(tableSchemaObj) ==
    IF tableSchemaObj = <<>> THEN Undefined
    ELSE IF Len(tableSchemaObj) > 1 THEN FindPrimaryKeyNoStop(Tail(tableSchemaObj))
    ELSE IF tableSchemaObj[1][2].primaryKey THEN Str(tableSchemaObj[1][1])
    ELSE Undefined

\* Object.keys(tableSchemaObj).find(key => { primaryKey = ...; return !!primaryKey })
RECURSIVE FindPrimaryKey(_)
FindPrimaryKey(tableSchemaObj) ==
    IF tableSchemaObj = <<>> THEN Undefined
    ELSE IF tableSchemaObj[1][2].primaryKey
         THEN Str(tableSchemaObj[1][1])
         ELSE FindPrimaryKey(Tail(tableSchemaObj))

\* @tableSchema(tableSchemaObj)
TableSchema(tableSchemaObj, name) ==
    /\ lastOp = "none"
    /\ _dbFields = Unset
    /\ _dbFields' = tableSchemaObj
    /\ _dbPrimaryKey' = FindPrimaryKey(tableSchemaObj)
    /\ className' = name
    /\ UNCHANGED <<_dbTable, hasInst, inst, insertsOk, lastID, lastOp, lastInput,
                   thrown, issued, path, errors, constructed, returned>>

\* @tableName(tableName)
TableName(tableName) ==
    /\ lastOp = "none"
    /\ _dbTable = Undefined
    /\ _dbTable' = Str(tableName)
    /\ UNCHANGED <<_dbFields, _dbPrimaryKey, className, hasInst, inst, insertsOk,
                   lastID, lastOp, lastInput, thrown, issued, path, errors,
                   constructed, returned>>

-----------------------------------------------------------------------------
(* Errors *)

NoError == [kind |-> "none", a |-> "", b |-> ""]

\* new Error(...) of DbModel, by kind, with the names its message carries
Error(kind, a, b) == [kind |-> kind, a |-> a, b |-> b]

\* The TypeError the runtime throws on a property read of null/undefined.
TypeError(what) == [kind |-> "TypeError", a |-> what, b |-> ""]

\* A verification that forgets the table-name check.
_verifyFieldsNoTableCheck(primaryKeyRequired) ==
    IF _dbFields = Unset THEN Error("FieldMapNotSet", "", "")
    ELSE IF primaryKeyRequired /\ Falsy(_dbPrimaryKey) THEN Error("PrimaryKeyNotSet", "", "")
    ELSE IF ~Falsy(_dbPrimaryKey) /\ ~HasOwnProperty(_dbFields, _dbPrimaryKey.v)
         THEN Error("PrimaryKeyNotFound", _dbPrimaryKey.v, _dbTable.v)
    ELSE NoError

\* DbModel._verifyFields: the error it throws, or NoError
_verifyFields(primaryKeyRequired) ==
    IF Falsy(_dbTable) THEN Error("TableNameNotSet", "", "")
    ELSE IF _dbFields = Unset THEN Error("FieldMapNotSet", "", "")
    ELSE IF primaryKeyRequired /\ Falsy(_dbPrimaryKey) THEN Error("PrimaryKeyNotSet", "", "")
    ELSE IF ~Falsy(_dbPrimaryKey) /\ ~HasOwnProperty(_dbFields, _dbPrimaryKey.v)
         THEN Error("PrimaryKeyNotFound", _dbPrimaryKey.v, _dbTable.v)
    ELSE NoError

-----------------------------------------------------------------------------
(* SQL text and statements *)

\* literal text of a template
Lit(s) == [k |-> "lit", s |-> s]

\* `s`: a back-quoted identifier
Id(s) == [k |-> "id", s |-> s]

\* a named parameter placeholder, sigil included
Ph(s) == [k |-> "ph", s |-> s]

\* parts.join(sep), each part a run of tokens
RECURSIVE Join(_, _)
Join(parts, sep) ==
    IF parts = <<>> THEN <<>>
    ELSE IF Len(parts) = 1 THEN parts[1]
    ELSE parts[1] \o <<Lit(sep)>> \o Join(Tail(parts), sep)

\* `${x}` for a column descriptor (a plain object) or an inherited function
DescriptorToString(field) ==
    IF field.type = "function"
    THEN "function " \o field.name \o "() { [native code] }"
    ELSE "[object Object]"

\* a call of the storage resource: db.conn.run or db.conn.each
Statement(method, sql, params) == [method |-> method, sql |-> sql, params |-> params]

\* The placeholders of a statement, and the ones its parameter mapping binds.
Placeholders(stmt) == {stmt.sql[i].s : i \in {j \in 1..Len(stmt.sql) : stmt.sql[j].k = "ph"}}

Bound(stmt) == KeySet(stmt.params)

-----------------------------------------------------------------------------
(* Record Mapper *)

\* get _updatableFields
_updatableFields ==
    SelectSeq(Keys(_dbFields), LAMBDA field : Str(field) # _dbPrimaryKey)

\* _getUpdatableFieldsQueryObject(fields), on the instance `self`
RECURSIVE _getUpdatableFieldsQueryObject(_, _)
_getUpdatableFieldsQueryObject(self, fields) ==
    IF fields = <<>> THEN <<>>
    ELSE Put(_getUpdatableFieldsQueryObject(self, SubSeq(fields, 1, Len(fields) - 1)),
             "$" \o fields[Len(fields)], Get(self, fields[Len(fields)]))

\* mysqlCopyFromRow(row), on a fresh instance
mysqlCopyFromRow(row) ==
    [i \in 1..Len(_dbFields) |-> <<_dbFields[i][1], Get(row, _dbFields[i][2].name)>>]

\* A validation message of createFromObject.
TypeFailure(key, type, got) == [kind |-> "type", key |-> key, type |-> type, got |-> got]

MissingFailure(key) == [kind |-> "missing", key |-> key, type |-> "", got |-> Undefined]

\* The switch on schema.type inside createFromObject: is obj[key] valid?
ValidForType(type, value) ==
    CASE type = "number"  -> ~MinusZeroIsNaN(value)
      [] type = "boolean" -> IsBooleanLiteral(value)
      [] OTHER            -> TRUE

\* The reducer of createFromObject for one key of _dbFields.
ValidateKey(obj, key, schema) ==
    IF HasOwnProperty(obj, key) /\ ~schema.nullable
    THEN IF ValidForType(schema.type, Get(obj, key))
         THEN <<>>
         ELSE <<TypeFailure(key, schema.type, Get(obj, key))>>
    ELSE IF ~HasOwnProperty(obj, key) /\ ~schema.nullable /\ Str(key) # _dbPrimaryKey
         THEN <<MissingFailure(key)>>
         ELSE <<>>

\* A validation that stops at the first failing field.
RECURSIVE ValidationErrorsShortCircuit(_, _)
ValidationErrorsShortCircuit(obj, fields) ==
    IF fields = <<>> THEN <<>>
    ELSE IF ValidateKey(obj, fields[1][1], fields[1][2]) # <<>>
         THEN ValidateKey(obj, fields[1][1], fields[1][2])
         ELSE ValidationErrorsShortCircuit(obj, Tail(fields))

\* Object.keys(_dbFields).reduce(...) of createFromObject
RECURSIVE ValidationErrors(_, _)
ValidationErrors(obj, fields) ==
    IF fields = <<>> THEN <<>>
    ELSE ValidateKey(obj, fields[1][1], fields[1][2]) \o ValidationErrors(obj, Tail(fields))

\* Object.keys(_dbFields).forEach(key => retObj[key] = obj[key])
CopyProperties(obj) ==
    [i \in 1..Len(_dbFields) |-> <<_dbFields[i][1], Get(obj, _dbFields[i][1])>>]

Result(kind, items) == [kind |-> kind, items |-> items]

-----------------------------------------------------------------------------
(* Inputs of createFromObject *)

\* The values an input object may hold for a column of the given type.
SampleValues(type) ==
    CASE type = "number"  -> {Num("7"), Num("0"), Str("abc")}
      [] type = "boolean" -> {Bool("true"), Str("yes")}
      [] OTHER            -> {Str("A")}

\* Every object that holds, for each declared property, nothing or a sample value.
RECURSIVE InputsOver(_)
InputsOver(fields) ==
    IF fields = <<>> THEN {<<>>}
    ELSE LET rest == InputsOver(Tail(fields))
         IN  rest \cup {<<<<fields[1][1], v>>>> \o r :
                           v \in SampleValues(fields[1][2].type), r \in rest}

\* What Date.now() returns.
Clock == {Num("1700")}

\* The highest row id the storage generates.
MaxRowId == 2

-----------------------------------------------------------------------------
(* Record Mapper and Persistence Dispatcher: the operations *)

\* The factory: Observation.create()
Create ==
    /\ hasInst' = TRUE
    /\ inst' = <<>>
    /\ insertsOk' = 0
    /\ lastOp' = "create"
    /\ lastInput' = <<>>
    /\ thrown' = NoError
    /\ issued' = <<>>
    /\ path' = ""
    /\ errors' = <<>>
    /\ constructed' = 1
    /\ returned' = Result("instance", <<inst'>>)
    /\ UNCHANGED <<_dbTable, _dbFields, _dbPrimaryKey, className, lastID>>

\* DbModel.createFromObject(obj)
CreateFromObject(obj) ==
    /\ lastOp' = "createFromObject"
    /\ lastInput' = obj
    /\ issued' = <<>>
    /\ path' = ""
    /\ constructed' = 1
    /\ IF _dbFields = Unset
       THEN /\ thrown' = TypeError("Object.keys(_dbFields)")
            /\ errors' = <<>>
            /\ returned' = Result("none", <<>>)
            /\ hasInst' = FALSE
            /\ inst' = <<>>
            /\ insertsOk' = 0
       ELSE LET errs == ValidationErrors(obj, _dbFields)
            IN  /\ thrown' = NoError
                /\ errors' = errs
                /\ IF Len(errs) # 0
                   THEN /\ returned' = Result("null", <<>>)
                        /\ hasInst' = FALSE
                        /\ inst' = <<>>
                        /\ insertsOk' = 0
                   ELSE /\ hasInst' = TRUE
                        /\ inst' = CopyProperties(obj)
                        /\ insertsOk' = 0
                        /\ returned' = Result("instance", <<inst'>>)
    /\ UNCHANGED <<_dbTable, _dbFields, _dbPrimaryKey, className, lastID>>

\* The INSERT statement _insert builds.
InsertQuery(insertableFields) ==
    <<Lit("INSERT INTO "), Id(_dbTable.v), Lit(" "), Lit("(")>>
    \o (IF insertableFields = <<>> THEN <<Id("")>>
        ELSE Join([i \in 1..Len(insertableFields) |->
                      <<Id(Get(_dbFields, insertableFields[i]).name)>>], ", "))
    \o <<Lit(") VALUES "), Lit("(")>>
    \o Join([i \in 1..Len(insertableFields) |-> <<Ph("$" \o insertableFields[i])>>], ", ")
    \o <<Lit(")")>>

\* The UPDATE statement _update builds.
UpdateQuery(updateableFields) ==
    <<Lit("UPDATE "), Id(_dbTable.v), Lit(" SET ")>>
    \o Join([i \in 1..Len(updateableFields) |->
                <<Id(DescriptorToString(Get(_dbFields, updateableFields[i]))),
                  Lit(" = "), Ph(":" \o updateableFields[i])>>], ", ")
    \o <<Lit(" WHERE "), Id(DescriptorToString(Get(_dbFields, _dbPrimaryKey.v))),
         Lit(" = "), Ph("$" \o _dbPrimaryKey.v)>>

\* Observation overrides sync() to stamp observationTime before persisting.
OverridesSync == _dbFields = ObservationSchema

\* The storage resource rejecting a statement.
StorageError == Error("StorageError", "", "")

\* An insert that forgets to write the generated id back.
AssignLastIDDropped(self, id) == self

\* if (_dbPrimaryKey) { this[_dbPrimaryKey] = result.lastID }
AssignLastID(self, id) ==
    IF ~Falsy(_dbPrimaryKey) THEN Put(self, _dbPrimaryKey.v, Num(ToString(id))) ELSE self

\* DbModel._insert, on the instance `self`; `ok`: the storage accepts the statement
_insert(self, ok) ==
    LET err == _verifyFields(FALSE)
    IN  /\ path' = "insert"
        /\ IF err # NoError
           THEN /\ thrown' = err
                /\ issued' = <<>>
                /\ inst' = self
                /\ UNCHANGED <<lastID, insertsOk>>
           ELSE LET insertableFields == _updatableFields
                    query == InsertQuery(insertableFields)
                    params == _getUpdatableFieldsQueryObject(self, insertableFields)
                IN  /\ issued' = <<Statement("run", query, params)>>
                    /\ IF ok
                       THEN /\ lastID < MaxRowId
                            /\ lastID' = lastID + 1
                            /\ insertsOk' = insertsOk + 1
                            /\ thrown' = NoError
                            /\ inst' = AssignLastID(self, lastID')
                       ELSE /\ thrown' = StorageError
                            /\ inst' = self
                            /\ UNCHANGED <<lastID, insertsOk>>

\* DbModel._update, on the instance `self`
_update(self, ok) ==
    LET err == _verifyFields(TRUE)
    IN  /\ path' = "update"
        /\ inst' = self
        /\ UNCHANGED <<lastID, insertsOk>>
        /\ IF err # NoError
           THEN /\ thrown' = err
                /\ issued' = <<>>
           ELSE LET updateableFields == _updatableFields
                    query == UpdateQuery(updateableFields)
                    params == _getUpdatableFieldsQueryObject(self, updateableFields)
                IN  /\ issued' = <<Statement("run", query, params)>>
                    /\ thrown' = IF ok THEN NoError ELSE StorageError

\* this[constructor._dbPrimaryKey]
PrimaryKeyValue(self) ==
    IF _dbPrimaryKey = Undefined THEN Get(self, "undefined") ELSE Get(self, _dbPrimaryKey.v)

\* instance.sync()
Sync(ok, now) ==
    /\ hasInst
    /\ lastOp' = "sync"
    /\ lastInput' = inst
    /\ errors' = <<>>
    /\ constructed' = 0
    /\ returned' = Result("void", <<>>)
    /\ LET self == IF OverridesSync THEN Put(inst, "observationTime", now) ELSE inst
       IN  IF Falsy(PrimaryKeyValue(self))
           THEN _insert(self, ok)
           ELSE _update(self, ok)
    /\ UNCHANGED <<_dbTable, _dbFields, _dbPrimaryKey, className, hasInst>>

-----------------------------------------------------------------------------
(* Operator Table and Condition Compiler *)

\* A condition of a conditions mapping: a scalar, a list, or { op: value }.
Scalar(x) == [kind |-> "scalar", op |-> "", arr |-> FALSE, items |-> <<x>>]

List(xs) == [kind |-> "array", op |-> "", arr |-> TRUE, items |-> xs]

Operator(op, x) == [kind |-> "object", op |-> op, arr |-> FALSE, items |-> <<x>>]

OperatorOnList(op, xs) == [kind |-> "object", op |-> op, arr |-> TRUE, items |-> xs]

\* values[i] of an operand, zero-based as in the source
At(items, i) == IF i + 1 \in 1..Len(items) THEN items[i + 1] ELSE Undefined

\* type WhereClause; sqlUndefined: what a non-generator returned has no .sql
WhereClause(sql, params) == [sql |-> sql, params |-> params, sqlUndefined |-> FALSE]

NotAWhereClause == [sql |-> <<>>, params |-> <<>>, sqlUndefined |-> TRUE]

\* The comparison generators of WHERE_OPERATORS: eq, gte, gt, lt, lte.
Comparison(symbol, field, value) ==
    WhereClause(<<Id(field.name), Lit(" " \o symbol \o " "), Ph("$" \o field.name)>>,
                <<<<"$" \o field.name, value>>>>)

\* WHERE_OPERATORS.between
Between(field, values) ==
    WhereClause(<<Id(field.name), Lit(" BETWEEN "), Ph("$" \o field.name \o "1"),
                  Lit(" AND "), Ph("$" \o field.name \o "2")>>,
                Put(<<<<"$" \o field.name \o "1", At(values, 0)>>>>,
                    "$" \o field.name \o "2", At(values, 1)))

\* The own keys of WHERE_OPERATORS.
OperatorNames == {"eq", "gte", "gt", "lt", "lte", "between"}

\* Function-valued properties every plain object inherits from Object.prototype,
\* each with the name of the function.
ObjectPrototype ==
    << <<"toString", "toString">>, <<"constructor", "Object">>,
       <<"valueOf", "valueOf">>, <<"hasOwnProperty", "hasOwnProperty">> >>

\* operator in WHERE_OPERATORS
InWhereOperators(operator) ==
    operator \in OperatorNames \/ HasOwnProperty(ObjectPrototype, operator)

\* WHERE_OPERATORS[operator](field, value)
ApplyOperator(operator, field, condition) ==
    CASE operator = "eq"      -> Comparison("=", field, condition.items[1])
      [] operator = "gte"     -> Comparison(">=", field, condition.items[1])
      [] operator = "gt"      -> Comparison(">", field, condition.items[1])
      [] operator = "lt"      -> Comparison("<", field, condition.items[1])
      [] operator = "lte"     -> Comparison("<=", field, condition.items[1])
      [] operator = "between" -> Between(field, condition.items)
      [] OTHER                -> NotAWhereClause

\* typeof condition === 'object'
TypeofObject(condition) ==
    condition.kind \in {"array", "object"} \/ condition.items[1].t = "null"

\* The IN branch of _generateWhereCondition.
InList(field, condition) ==
    LET paramName(index) == className \o ToString(index)
    IN  WhereClause(
          <<Id(DescriptorToString(field)), Lit(" IN (")>>
          \o Join([i \in 1..Len(condition.items) |-> <<Ph("$" \o paramName(i - 1))>>], ", "),
          [i \in 1..Len(condition.items) |-> <<paramName(i - 1), condition.items[i]>>])

\* DbModel._generateWhereCondition: [err, clause]
_generateWhereCondition(field, condition) ==
    IF TypeofObject(condition)
    THEN IF condition.kind = "array"
         THEN [err |-> NoError, clause |-> InList(field, condition)]
         ELSE IF condition.kind = "scalar"
              THEN [err |-> TypeError("Object.keys(null)"), clause |-> NotAWhereClause]
              ELSE IF InWhereOperators(condition.op)
                   THEN [err |-> NoError,
                         clause |-> ApplyOperator(condition.op, field, condition)]
                   ELSE [err |-> Error("UnsupportedOperator", condition.op, ""),
                         clause |-> NotAWhereClause]
    ELSE [err |-> NoError, clause |-> Comparison("=", field, condition.items[1])]

\* this._dbFields[key]: [found, field]
LookupField(key) ==
    IF HasOwnProperty(_dbFields, key)
    THEN [found |-> TRUE, field |-> Get(_dbFields, key)]
    ELSE IF HasOwnProperty(ObjectPrototype, key)
         THEN [found |-> TRUE,
               field |-> [name |-> Get(ObjectPrototype, key), type |-> "function",
                          nullable |-> FALSE, primaryKey |-> FALSE]]
         ELSE [found |-> FALSE, field |-> ColumnDescriptor("", "", FALSE, FALSE)]

\* One step of the forEach of _generateWhereClause: retVal extended by one key.
AddCondition(retVal, key, condition) ==
    LET lookup == LookupField(key)
    IN  IF ~lookup.found
        THEN [err |-> Error("UnknownField", key, _dbTable.v), clause |-> retVal]
        ELSE LET got == _generateWhereCondition(lookup.field, condition)
                 whereCondition == got.clause
                 rendered == IF whereCondition.sqlUndefined
                             THEN <<Lit("undefined")>> ELSE whereCondition.sql
             IN  IF got.err # NoError
                 THEN [err |-> got.err, clause |-> retVal]
                 ELSE [err |-> NoError,
                       clause |-> WhereClause(
                           IF retVal.sql # <<>>
                           THEN retVal.sql \o <<Lit(" AND ")>> \o rendered
                           ELSE whereCondition.sql,
                           Spread(retVal.params, whereCondition.params))]

\* DbModel._generateWhereClause(conditions), conditions not nil: [err, clause]
RECURSIVE _generateWhereClause(_)
_generateWhereClause(conditions) ==
    IF conditions = <<>> THEN [err |-> NoError, clause |-> WhereClause(<<>>, <<>>)]
    ELSE LET init == _generateWhereClause(SubSeq(conditions, 1, Len(conditions) - 1))
             last == conditions[Len(conditions)]
         IN  IF init.err # NoError THEN init
             ELSE AddCondition(init.clause, last[1], last[2])

-----------------------------------------------------------------------------
(* Selection Executor *)

\* The conditions argument: nil (absent) or a mapping.
Nil == [nil |-> TRUE, map |-> <<>>]

Conditions(map) == [nil |-> FALSE, map |-> map]

\* The keys conditions are tried on: two declared properties, an undeclared
\* one, and one that only Object.prototype knows.
SampleKeys ==
    {_dbFields[i][1] : i \in (1..2) \cap DOMAIN _dbFields}
    \cup {"bogus", "toString"}

\* The conditions tried alone on a key.
SampleConditions ==
    {Scalar(Str("A")), Scalar(Null),
     List(<<Str("A"), Str("B"), Str("C")>>), List(<<Str("A"), Str("B")>>),
     OperatorOnList("between", <<Num("10"), Num("20")>>),
     Operator("gte", Num("5")), Operator("near", Num("5")),
     Operator("toString", Num("5"))}

\* The conditions tried on the keys of a two-key mapping.
PairConditions ==
    {Scalar(Str("A")), List(<<Str("A"), Str("B")>>),
     OperatorOnList("between", <<Num("10"), Num("20")>>)}

\* The conditions arguments selectAll is called with.
ConditionInputs ==
    {Nil, Conditions(<<>>)}
    \cup {Conditions(<<<<k, c>>>>) : k \in SampleKeys, c \in SampleConditions}
    \cup {Conditions(<<<<k[1], c1>>, <<k[2], c2>>>>) :
            k \in {kk \in SampleKeys \X SampleKeys : kk[1] # kk[2]},
            c1 \in PairConditions, c2 \in PairConditions}

\* A row of the table as the storage returns it: every declared column.
SampleRow ==
    [i \in 1..Len(_dbFields) |->
        <<_dbFields[i][2].name,
          CASE _dbFields[i][2].type = "number"  -> Num("7")
            [] _dbFields[i][2].type = "boolean" -> Bool("true")
            [] OTHER                            -> Str("A")>>]

\* What db.conn.each does with a statement: it rejects, or calls back per row,
\* with an error or with the row.
RowOk == [err |-> FALSE, row |-> SampleRow]

RowError == [err |-> TRUE, row |-> <<>>]

StorageReplies ==
    {[ok |-> FALSE, rows |-> <<>>], [ok |-> TRUE, rows |-> <<>>],
     [ok |-> TRUE, rows |-> <<RowOk>>], [ok |-> TRUE, rows |-> <<RowError, RowOk>>]}

\* this._createThisFromRow(row) for every row the callback gets without error
RECURSIVE Hydrate(_)
Hydrate(rows) ==
    IF rows = <<>> THEN <<>>
    ELSE (IF rows[1].err THEN <<>> ELSE <<mysqlCopyFromRow(rows[1].row)>>)
         \o Hydrate(Tail(rows))

\* The SELECT statement selectAll builds from a compiled clause.
SelectQuery(whereClause) ==
    <<Lit("SELECT * FROM "), Id(_dbTable.v)>>
    \o (IF whereClause.sql # <<>> THEN <<Lit(" WHERE ")>> \o whereClause.sql ELSE <<>>)

\* DbModel.selectAll(conditions)
SelectAll(conditions, reply) ==
    /\ lastOp' = "selectAll"
    /\ lastInput' = conditions
    /\ path' = ""
    /\ errors' = <<>>
    /\ LET err == _verifyFields(FALSE)
           \* conditions && this._generateWhereClause(conditions)
           compiled == IF conditions.nil
                       THEN [err |-> TypeError("whereClause.sql"),
                             clause |-> NotAWhereClause]
                       ELSE _generateWhereClause(conditions.map)
       IN  IF err # NoError \/ compiled.err # NoError
           THEN /\ thrown' = IF err # NoError THEN err ELSE compiled.err
                /\ issued' = <<>>
                /\ constructed' = 0
                /\ returned' = Result("none", <<>>)
           ELSE /\ issued' = <<Statement("each", SelectQuery(compiled.clause),
                                         compiled.clause.params)>>
                /\ IF reply.ok
                   THEN /\ thrown' = NoError
                        /\ returned' = Result("list", Hydrate(reply.rows))
                        /\ constructed' = Len(returned'.items)
                   ELSE /\ thrown' = StorageError
                        /\ constructed' = 0
                        /\ returned' = Result("none", <<>>)
    /\ UNCHANGED <<_dbTable, _dbFields, _dbPrimaryKey, className, hasInst, inst,
                   insertsOk, lastID>>

-----------------------------------------------------------------------------
(* Specifications *)

Init ==
    /\ _dbTable = Undefined
    /\ _dbFields = Unset
    /\ _dbPrimaryKey = Undefined
    /\ className = "DbModel"
    /\ hasInst = FALSE
    /\ inst = <<>>
    /\ insertsOk = 0
    /\ lastID = 0
    /\ lastOp = "none"
    /\ lastInput = <<>>
    /\ thrown = NoError
    /\ issued = <<>>
    /\ path = ""
    /\ errors = <<>>
    /\ constructed = 0
    /\ returned = Result("none", <<>>)

Register ==
    \/ \E tableSchemaObj \in Schemas, name \in ClassNames : TableSchema(tableSchemaObj, name)
    \/ \E tableName \in TableNames : TableName(tableName)

NextPersist ==
    \/ Register
    \/ Create
    \/ \E obj \in InputsOver(_dbFields) : CreateFromObject(obj)
    \/ \E ok \in BOOLEAN, now \in Clock : Sync(ok, now)

NextSelect ==
    \/ Register
    \/ \E conditions \in ConditionInputs, reply \in StorageReplies :
          SelectAll(conditions, reply)

\* Registration and selection.
SpecSelect == Init /\ [][NextSelect]_vars

\* Inputs that pass validation: every declared property with a value of its
\* type, with and without the primary key.
CompleteInputs ==
    LET all == [i \in 1..Len(_dbFields) |->
                   <<_dbFields[i][1], Get(SampleRow, _dbFields[i][2].name)>>]
    IN  {all, SelectSeq(all, LAMBDA p : Str(p[1]) # _dbPrimaryKey)}

\* Unfiltered selections and one scalar condition per sample key.
PlainConditionInputs ==
    {Nil, Conditions(<<>>)}
    \cup {Conditions(<<<<k, Scalar(Str("A"))>>>>) : k \in SampleKeys}

NextOperations ==
    \/ Register
    \/ Create
    \/ \E obj \in CompleteInputs : CreateFromObject(obj)
    \/ \E ok \in BOOLEAN, now \in Clock : Sync(ok, now)
    \/ \E conditions \in PlainConditionInputs, reply \in StorageReplies :
          SelectAll(conditions, reply)

\* Every query-issuing operation, on valid inputs, over every registration.
SpecOperations == Init /\ [][NextOperations]_vars

\* Registration, construction and persistence of one record instance.
SpecPersist == Init /\ [][NextPersist]_vars

-----------------------------------------------------------------------------
(* Properties *)

Registered == _verifyFields(FALSE) = NoError

PrimaryKeyDeclared == ~Falsy(_dbPrimaryKey)

\* The first word of a statement.
Verb(stmt) == stmt.sql[1].s

\* The tokens of one kind of a statement, in order.
TokensOfKind(stmt, k) == SelectSeq(stmt.sql, LAMBDA tok : tok.k = k)

\* C1: with a declared primary key, a sync() whose INSERT succeeds leaves the
\* storage-generated id in the primary-key property, an instance is inserted
\* at most once, and once it has been inserted sync() issues one UPDATE.
C1_InsertThenUpdate ==
    (PrimaryKeyDeclared /\ hasInst /\ lastOp = "sync") =>
        /\ path \in {"insert", "update"}
        /\ (path = "insert" /\ thrown = NoError) =>
               /\ PrimaryKeyValue(inst) = Num(ToString(lastID))
               /\ ~Falsy(PrimaryKeyValue(inst))
        /\ path = "insert" => insertsOk = (IF thrown = NoError THEN 1 ELSE 0)
        /\ (path = "update" /\ insertsOk >= 1) =>
               /\ Len(issued) = 1
               /\ Verb(issued[1]) = "UPDATE "
        /\ insertsOk <= 1

\* An inserted instance has been synced again.
C1_Witness ==
    /\ PrimaryKeyDeclared /\ hasInst /\ lastOp = "sync"
    /\ insertsOk = 1 /\ path = "update" /\ Len(issued) = 1
    /\ PrimaryKeyValue(inst) = Num(ToString(lastID))

\* C2: selectAll with nil or empty conditions on a registered record type does
\* not fail and runs SELECT * FROM <table> with no WHERE clause, returning the
\* hydrated rows.
C2_SelectAllUnfiltered ==
    (/\ lastOp = "selectAll" /\ Registered
     /\ (lastInput.nil \/ lastInput.map = <<>>)
     /\ thrown # StorageError) =>
        /\ thrown = NoError
        /\ issued = <<Statement("each", <<Lit("SELECT * FROM "), Id(_dbTable.v)>>, <<>>)>>
        /\ returned.kind = "list"

\* The declared fields createFromObject must report as missing for an input.
RequiredAbsent(obj) ==
    {i \in 1..Len(_dbFields) :
        /\ ~_dbFields[i][2].nullable
        /\ Str(_dbFields[i][1]) # _dbPrimaryKey
        /\ ~HasOwnProperty(obj, _dbFields[i][1])}

MissingReported == {j \in 1..Len(errors) : errors[j].kind = "missing"}

TypeReported(key) == {j \in 1..Len(errors) : errors[j].kind = "type" /\ errors[j].key = key}

\* Exactly one missing-field failure per absent required field.
AllMissingReported ==
    /\ \A i \in RequiredAbsent(lastInput) :
          Cardinality({j \in MissingReported : errors[j].key = _dbFields[i][1]}) = 1
    /\ Cardinality(MissingReported) = Cardinality(RequiredAbsent(lastInput))

\* C3 (amended): createFromObject reports one failure for every absent
\* non-nullable, non-primary-key field, and when any failure exists it returns
\* no instance: the one its factory built before validating is dropped.
C3_AllFailuresCollected ==
    (lastOp = "createFromObject" /\ _dbFields # Unset) =>
        /\ AllMissingReported
        /\ Len(errors) > 0 => (returned.kind = "null" /\ ~hasInst /\ constructed = 1)

\* Two required fields are missing from the input.
C3_Witness ==
    /\ lastOp = "createFromObject" /\ _dbFields # Unset
    /\ Cardinality(RequiredAbsent(lastInput)) = 2
    /\ Cardinality(MissingReported) = 2
    /\ returned.kind = "null"

\* C3 as claimed: with any failure, no instance is constructed or returned.
C3_NoInstanceConstructed ==
    (lastOp = "createFromObject" /\ _dbFields # Unset) =>
        /\ AllMissingReported
        /\ Len(errors) > 0 => (returned.kind = "null" /\ ~hasInst /\ constructed = 0)

\* C4 (fields other than the primary key): a declared field that is present in
\* the input is type-checked, nullable or not: a failure is reported for it
\* exactly when its value does not fit the declared type.
C4_TypeCheckedWhenPresent ==
    (lastOp = "createFromObject" /\ _dbFields # Unset) =>
        \A i \in 1..Len(_dbFields) :
            LET key == _dbFields[i][1]
                schema == _dbFields[i][2]
            IN  (Str(key) # _dbPrimaryKey /\ HasOwnProperty(lastInput, key)) =>
                    (TypeReported(key) # {}
                        <=> ~ValidForType(schema.type, Get(lastInput, key)))

\* C5: a single operator condition on a declared property whose operator is
\* none of eq, gt, gte, lt, lte, between fails with an unsupported-operator
\* error naming the operator, and no statement is issued.
C5_UnsupportedOperatorRejected ==
    (/\ lastOp = "selectAll" /\ Registered
     /\ ~lastInput.nil /\ Len(lastInput.map) = 1
     /\ HasOwnProperty(_dbFields, lastInput.map[1][1])
     /\ lastInput.map[1][2].kind = "object"
     /\ lastInput.map[1][2].op \notin OperatorNames) =>
        /\ thrown = Error("UnsupportedOperator", lastInput.map[1][2].op, "")
        /\ issued = <<>>

\* The positions of the keys of a conditions mapping that the schema does not declare.
UndeclaredKeys(map) == {i \in 1..Len(map) : ~HasOwnProperty(_dbFields, map[i][1])}

\* A condition the compiler accepts on a declared property.
Supported(condition) ==
    \/ condition.kind = "scalar" /\ condition.items[1].t # "null"
    \/ condition.kind = "array"
    \/ condition.kind = "object" /\ condition.op \in OperatorNames

\* C6: a conditions mapping (of supported conditions) with a key the schema
\* does not declare fails with an unknown-field error naming the key and the
\* table, and no statement is issued, wherever the key stands.
C6_UnknownFieldRejected ==
    (/\ lastOp = "selectAll" /\ Registered
     /\ ~lastInput.nil /\ UndeclaredKeys(lastInput.map) # {}
     /\ \A i \in 1..Len(lastInput.map) : Supported(lastInput.map[i][2])) =>
        /\ thrown.kind = "UnknownField"
        /\ \E i \in UndeclaredKeys(lastInput.map) :
              thrown = Error("UnknownField", lastInput.map[i][1], _dbTable.v)
        /\ issued = <<>>

\* C7: a list of n scalars on a declared property compiles to one IN fragment
\* on the property's column with n distinct placeholders in input order, and
\* the parameter mapping has exactly n entries, each under its placeholder's
\* name and bound to the matching element.
C7_InListCompilation ==
    (/\ lastOp = "selectAll" /\ Registered
     /\ ~lastInput.nil /\ Len(lastInput.map) = 1
     /\ HasOwnProperty(_dbFields, lastInput.map[1][1])
     /\ lastInput.map[1][2].kind = "array") =>
        /\ Len(issued) = 1
        /\ LET stmt == issued[1]
               items == lastInput.map[1][2].items
               phs == TokensOfKind(stmt, "ph")
               ids == TokensOfKind(stmt, "id")
           IN  /\ ids = <<Id(_dbTable.v), Id(Get(_dbFields, lastInput.map[1][1]).name)>>
               /\ Len(phs) = Len(items)
               /\ Cardinality(Placeholders(stmt)) = Len(items)
               /\ Len(stmt.params) = Len(items)
               /\ \A i \in 1..Len(items) :
                     /\ HasOwnProperty(stmt.params, phs[i].s)
                     /\ Get(stmt.params, phs[i].s) = items[i]

\* The number of values the conditions of a mapping bind.
RECURSIVE ValueCount(_)
ValueCount(map) ==
    IF map = <<>> THEN 0 ELSE Len(map[1][2].items) + ValueCount(Tail(map))

\* C8: in a clause compiled from supported conditions over distinct declared
\* properties no two placeholders share a name, and merging the fragments'
\* parameters loses none: there is one placeholder and one entry per value.
C8_ParameterNamesUnique ==
    (/\ lastOp = "selectAll" /\ Registered
     /\ ~lastInput.nil /\ UndeclaredKeys(lastInput.map) = {}
     /\ \A i \in 1..Len(lastInput.map) : Supported(lastInput.map[i][2])
     /\ Len(issued) = 1) =>
        LET stmt == issued[1]
            phs == TokensOfKind(stmt, "ph")
        IN  /\ Len(phs) = ValueCount(lastInput.map)
            /\ Cardinality(Placeholders(stmt)) = Len(phs)
            /\ Len(stmt.params) = ValueCount(lastInput.map)

\* C9: sync() on an instance with its primary key set issues one UPDATE of the
\* table that sets every non-primary-key column from a placeholder and
\* compares the primary-key column to a placeholder, every placeholder bound
\* to the instance's value of its field.
C9_UpdateStatement ==
    (lastOp = "sync" /\ path = "update" /\ _verifyFields(TRUE) = NoError) =>
        /\ Len(issued) = 1
        /\ LET stmt == issued[1]
               phs == TokensOfKind(stmt, "ph")
               ids == TokensOfKind(stmt, "id")
               fields == _updatableFields \o <<_dbPrimaryKey.v>>
           IN  /\ Verb(stmt) = "UPDATE "
               /\ ids = <<Id(_dbTable.v)>>
                        \o [i \in 1..Len(fields) |-> Id(Get(_dbFields, fields[i]).name)]
               /\ Len(phs) = Len(fields)
               /\ \A i \in 1..Len(phs) :
                     /\ HasOwnProperty(stmt.params, phs[i].s)
                     /\ Get(stmt.params, phs[i].s) = Get(inst, fields[i])

\* The positions of the field map that are marked primaryKey.
MarkedPrimaryKey == {i \in 1..Len(_dbFields) : _dbFields[i][2].primaryKey}

\* C10 (amended): the primary-key property is unset when no field is marked
\* primaryKey, and otherwise it is the first marked field in field-map order.
C10_FirstMarkedWins ==
    _dbFields # Unset =>
        IF MarkedPrimaryKey = {}
        THEN _dbPrimaryKey = Undefined
        ELSE \E i \in MarkedPrimaryKey :
                /\ \A j \in MarkedPrimaryKey : i <= j
                /\ _dbPrimaryKey = Str(_dbFields[i][1])

\* A field map with several fields marked primaryKey has been registered.
C10_Witness ==
    /\ _dbFields # Unset
    /\ Cardinality(MarkedPrimaryKey) > 1
    /\ _dbPrimaryKey # Undefined

\* C10 as claimed: with several marked fields the last one declared wins.
C10_LastMarkedWins ==
    _dbFields # Unset =>
        IF MarkedPrimaryKey = {}
        THEN _dbPrimaryKey = Undefined
        ELSE \E i \in MarkedPrimaryKey :
                /\ \A j \in MarkedPrimaryKey : j <= i
                /\ _dbPrimaryKey = Str(_dbFields[i][1])

\* The statics fail schema verification (primaryKeyRequired: for an UPDATE).
SchemaInvalid(primaryKeyRequired) ==
    \/ Falsy(_dbTable)
    \/ _dbFields = Unset
    \/ primaryKeyRequired /\ Falsy(_dbPrimaryKey)
    \/ ~Falsy(_dbPrimaryKey) /\ ~HasOwnProperty(_dbFields, _dbPrimaryKey.v)

ConfigurationErrors ==
    {"TableNameNotSet", "FieldMapNotSet", "PrimaryKeyNotSet", "PrimaryKeyNotFound"}

\* C11: when schema verification fails, sync() (on its INSERT and on its
\* UPDATE path) and selectAll() throw a configuration error and hand no
\* statement to the storage resource.
C11_VerificationFailsFast ==
    (/\ lastOp \in {"sync", "selectAll"}
     /\ SchemaInvalid(lastOp = "sync" /\ path = "update")) =>
        /\ thrown.kind \in ConfigurationErrors
        /\ issued = <<>>
        /\ returned.kind \in {"none", "void"} /\ returned.items = <<>>
        /\ insertsOk = 0

\* An UPDATE was refused because the table name is not set.
C11_Witness ==
    /\ lastOp = "sync" /\ path = "update"
    /\ ~Falsy(PrimaryKeyValue(inst))
    /\ Falsy(_dbTable)
    /\ thrown.kind = "TableNameNotSet"
    /\ issued = <<>>

====
